---- MODULE Spec2Model ----
(***************************************************************************)
(* A model of spectrum_tracer_rs: the thread orchestrator and row-band     *)
(* workers of main.rs, the recursive tracer, and the nearest-hit scans of  *)
(* shape.rs, hitable.rs and scene.rs.                                      *)
(*                                                                         *)
(* Real numbers (f64) are modelled in fixed point.  Distances along a ray  *)
(* are counted in ticks of 1/2000 (so 0.001 is 2 ticks), vector components *)
(* in quarters (VS), colour channels in hundredths (CS).                   *)
(***************************************************************************)
EXTENDS Integers, Sequences, FiniteSets, TLC

VARIABLES
    \* ---- the render (main.rs: main and threaded_color)
    RES_X, RES_Y,          \* output resolution: width, height
    NUMBER_OF_THREADS,
    build,                 \* how the program was compiled
    shared_scene,          \* the scene, built before any worker starts
    child_threads,         \* join handles, in spawn order (thread ids)
    threads,               \* per spawned thread: its band, cursor, buffer, generator
    joined,                \* children joined so far
    file_contents,         \* the String main builds
    file,                  \* what output/render.ppm holds
    finish_order,          \* history: thread ids in the order they finished
    main_pc,
    \* ---- the nearest-hit scan (shape.rs / hitable.rs / scene.rs)
    kind,                  \* which aggregate runs: "ShapeAggregate", "HitableList", "Scene"
    items,                 \* the aggregate's items, seen from the ray being tested
    t_min, t_max,          \* the caller's interval
    idx,                   \* position of the for loop over items
    closest_t,             \* closest_t / closest_so_far
    closest_intersection,  \* the retained intersection
    tested,                \* history: the interval handed to each item's test
    scan_pc,
    \* ---- one call of trace(r, scene, depth) and its recursion (main.rs)
    tr_scene,              \* the scene the call runs on
    tr_start,              \* the depth argument of the outermost call
    tr_first,              \* the ray of the outermost call
    tr_ray,                \* the ray `r` of the innermost call
    depth,                 \* the depth argument of the innermost call
    intersection,          \* its `intersection`
    pending,               \* attenuations of the calls waiting for their callee
    tr_rng,                \* the calling thread's generator
    scatters,              \* history: calls of Material::scatter so far
    result,                \* the value returned by the innermost finished call
    tr_pc,
    \* ---- one call of a constructor or method of material.rs, vector.rs, ray.rs
    callee,                \* the function called
    args,                  \* its arguments
    call_rng,              \* the calling thread's generator
    returned,              \* the value it returned
    call_pc

render_vars == <<RES_X, RES_Y, NUMBER_OF_THREADS, build, shared_scene,
                 child_threads, threads, joined, file_contents, file,
                 finish_order, main_pc>>

scan_vars == <<kind, items, t_min, t_max, idx, closest_t, closest_intersection,
               tested, scan_pc>>

trace_vars == <<tr_scene, tr_start, tr_first, tr_ray, depth, intersection, pending,
                tr_rng, scatters, result, tr_pc>>

call_vars == <<callee, args, call_rng, returned, call_pc>>

vars == <<render_vars, scan_vars, trace_vars, call_vars>>

\* ------------------------------------------------------------------ bounds
MaxItems == 2

\* ------------------------------------------------------- program constants
EPSILON == 2            \* shape.rs: const EPSILON: f64 = 0.001, in ticks
T_MIN == 2              \* main.rs: scene.intersect(&r, 0.001, f64::MAX), in ticks
F64_MAX == 1000000      \* std::f64::MAX: above every distance of the model
MAX_DEPTH == 5          \* main.rs: const MAX_DEPTH: u32 = 5
TICKS == 2000           \* ticks per unit of distance
VS == 4                 \* vector components and uniform draws: quarters
CS == 100               \* colour channels and albedos: hundredths
RNG_MOD == 8            \* states of a thread's generator

\* --------------------------------------------------------------- numerics
Abs(n) == IF n < 0 THEN -n ELSE n

\* f64::sqrt of a non-negative number, rounded down to the grid
RECURSIVE SqrtIn(_, _, _)
SqrtIn(lo, hi, n) ==
    IF lo >= hi THEN lo
    ELSE IF ((lo + hi + 1) \div 2) * ((lo + hi + 1) \div 2) <= n
         THEN SqrtIn((lo + hi + 1) \div 2, hi, n)
         ELSE SqrtIn(lo, ((lo + hi + 1) \div 2) - 1, n)
Sqrt(n) == SqrtIn(0, IF n < 46340 THEN n ELSE 46340, n)

\* ---------------------------------------------------------- intersections
\* An item is a sphere as one ray sees it: a = dot(direction, direction),
\* p = dot(origin - center, direction), q = dot(oc, oc) - radius^2, and the
\* sphere's material.
Miss == [hit |-> FALSE]
Hit(t, item) == [hit |-> TRUE, t |-> t, shape |-> item]

\* shape.rs, impl Shape for Sphere: the interval is not consulted
Sphere_intersect(item, lo, hi) ==
    LET b == 2 * item.p
        c == item.q
        discriminant == b * b - 4 * c
    IN  IF discriminant < 0 THEN Miss
        ELSE LET root == Sqrt(discriminant)
                 solution_0 == -b + root
                 solution_1 == -b - root
             IN  IF solution_1 > EPSILON THEN Hit(solution_1 \div 2, item)
                 ELSE IF solution_0 > EPSILON THEN Hit(solution_0 \div 2, item)
                 ELSE Miss

\* hitable.rs, impl Hitable for Sphere
Sphere_hit(item, lo, hi) ==
    LET a == item.a
        b == item.p
        c == item.q
        discriminant == b * b - a * c
    IN  IF discriminant > 0
        THEN LET temp0 == (-b - Sqrt(discriminant)) \div a
                 temp1 == (-b + Sqrt(discriminant)) \div a
             IN  IF temp0 < hi /\ temp0 > lo THEN Hit(temp0, item)
                 ELSE IF temp1 < hi /\ temp1 > lo THEN Hit(temp1, item)
                 ELSE Miss
        ELSE Miss

\* primitive.rs, Primitive::intersect: the shape's test on the ray's own
\* interval (the one-argument Shape::intersect, section 4.3 of the design)
Primitive_intersect(item, lo, hi) ==
    LET a == item.a
        b == item.p
        discriminant == b * b - a * item.q
    IN  IF discriminant <= 0 THEN Miss
        ELSE LET t0 == (-b - Sqrt(discriminant)) \div a
                 t1 == (-b + Sqrt(discriminant)) \div a
             IN  IF t0 > lo /\ t0 < hi THEN Hit(t0, item)
                 ELSE IF t1 > lo /\ t1 < hi THEN Hit(t1, item)
                 ELSE Miss

\* the item test each aggregate's loop calls
ItemTest(k, item, lo, hi) ==
    CASE k = "ShapeAggregate" -> Sphere_intersect(item, lo, hi)
      [] k = "HitableList"    -> Sphere_hit(item, lo, hi)
      [] k = "Scene"          -> Primitive_intersect(item, lo, hi)

\* the upper bound each loop hands to the item test: the caller's t_max
\* (shape.rs:111, hitable.rs:102, scene.rs:24), whatever closest_t is by then
UpperShrunk(k, tmax, closest) == closest
Upper(k, tmax, closest) == tmax

\* the comparison that decides whether a hit replaces the retained one
\* (shape.rs:112, hitable.rs:103, scene.rs:25)
CloserAlways(t, closest) == TRUE
Closer(t, closest) == t < closest

\* one turn of the loop body: [closest_t, closest_intersection] after item
ScanItem(k, acc, item, lo, hi) ==
    LET intersect == ItemTest(k, item, lo, Upper(k, hi, acc.closest_t))
    IN  IF intersect.hit /\ Closer(intersect.t, acc.closest_t)
        THEN [closest_t |-> intersect.t, closest_intersection |-> intersect]
        ELSE acc

RECURSIVE ScanFrom(_, _, _, _, _, _)
ScanFrom(k, acc, its, n, lo, hi) ==
    IF n > Len(its) THEN acc.closest_intersection
    ELSE ScanFrom(k, ScanItem(k, acc, its[n], lo, hi), its, n + 1, lo, hi)

\* ShapeAggregate::intersect / HitableList::hit / Scene::intersect as a whole
Intersect(k, its, lo, hi) ==
    ScanFrom(k, [closest_t |-> hi, closest_intersection |-> Miss], its, 1, lo, hi)

\* ================================================================ vectors
\* a / b rounded to the nearest grid point (b > 0)
Round(a, b) == (2 * a + b) \div (2 * b)

\* the one element of a singleton: { e(x) : x \in {v} } evaluates v once
The(S) == CHOOSE x \in S : TRUE

\* vector.rs: struct Vector.  NaN3 is a vector whose components are all NaN.
Vector(x, y, z) == [x |-> x, y |-> y, z |-> z]
NaN3 == [nan |-> TRUE]
IsNaN(v) == "nan" \in DOMAIN v
Vector_zero == Vector(0, 0, 0)
Vector_origin == Vector(0, 0, 0)
Vector_one == Vector(CS, CS, CS)

Add(a, b) == IF IsNaN(a) \/ IsNaN(b) THEN NaN3
             ELSE Vector(a.x + b.x, a.y + b.y, a.z + b.z)
Sub(a, b) == IF IsNaN(a) \/ IsNaN(b) THEN NaN3
             ELSE Vector(a.x - b.x, a.y - b.y, a.z - b.z)
\* Vector * Vector, both in hundredths
Mul(a, b) == IF IsNaN(a) \/ IsNaN(b) THEN NaN3
             ELSE Vector(Round(a.x * b.x, CS), Round(a.y * b.y, CS), Round(a.z * b.z, CS))
\* Vector * f64, the factor being num / den
MulF64(v, num, den) ==
    IF IsNaN(v) THEN NaN3
    ELSE Vector(Round(v.x * num, den), Round(v.y * num, den), Round(v.z * num, den))
dot(a, b) == a.x * b.x + a.y * b.y + a.z * b.z
squared_length(v) == dot(v, v)
length(v) == Sqrt(squared_length(v))
\* Vector::normalize: *self / self.length(); 0.0 / 0.0 is NaN
normalize(v) ==
    The({IF IsNaN(w) THEN NaN3
         ELSE The({IF len = 0 THEN NaN3 ELSE MulF64(w, VS, len) :
                      len \in {length(w)}}) :
            w \in {v}})
\* Vector::reflect: *self - *n * 2.0 * self.dot(n)
reflect(v, n) ==
    The({IF IsNaN(w) \/ IsNaN(m) THEN NaN3
         ELSE Sub(w, MulF64(m, 2 * dot(w, m), VS * VS)) :
            w \in {v}, m \in {n}})

\* ------------------------------------------------------------ generator
\* rand::thread_rng(): the calling thread's generator; draws counts next_f64
Rng(seed) == [state |-> seed, draws |-> 0]
\* Rng::next_f64: a value of [0, 1) in quarters, and the generator after it
next_f64(rng) ==
    LET ns == (5 * rng.state + 3) % RNG_MOD
    IN  [value |-> ns \div 2, rng |-> [state |-> ns, draws |-> rng.draws + 1]]

\* Vector::random_in_unit_sphere: rejection sampling from the cube
RECURSIVE random_in_unit_sphere(_)
random_in_unit_sphere(rng) ==
    The({The({The({
        The({IF squared_length(p) <= VS * VS THEN [p |-> p, rng |-> dz.rng]
             ELSE random_in_unit_sphere(dz.rng) :
                p \in {Sub(MulF64(Vector(dx.value, dy.value, dz.value), 2, 1),
                           Vector(VS, VS, VS))}}) :
            dz \in {next_f64(dy.rng)}}) :
            dy \in {next_f64(dx.rng)}}) :
            dx \in {next_f64(rng)}})

\* ------------------------------------------------------------------ rays
\* ray.rs, Ray::new: the direction is normalized on construction
Ray_new(o, d, lo, hi) ==
    The({[origin |-> o, direction |-> dir, t_min |-> lo, t_max |-> hi] :
            dir \in {normalize(d)}})
\* Ray::point_at: origin + direction * t, t in ticks
point_at(ray, t) == Add(ray.origin, MulF64(ray.direction, t, TICKS))

\* -------------------------------------------------------------- materials
Lambertian(albedo) == [type |-> "Lambertian", albedo |-> albedo]
Metallic(albedo, glossiness) ==
    [type |-> "Metallic", albedo |-> albedo, glossiness |-> glossiness]

\* material.rs:69-74, Metallic::new: glossiness: g.min(1.0).max(0.0)
Metallic_new_unclamped(a, g) == Metallic(a, g)
Metallic_new(a, g) ==
    Metallic(a, LET least == IF g < CS THEN g ELSE CS
                IN  IF least > 0 THEN least ELSE 0)

\* main.rs:198
NUMBER_OF_SPHERES == 5
\* main.rs:202-213, turn i of the loop over 1..NUMBER_OF_SPHERES: the
\* Metallic is a struct literal, its albedo three draws of main's generator,
\* its glossiness pct = i / NUMBER_OF_SPHERES as it is
main_Metallic(i, rng) ==
    The({The({The({
        [mtl |-> Metallic(Vector(MulF64(Vector(r.value, g.value, b.value), CS, VS).x,
                                 MulF64(Vector(r.value, g.value, b.value), CS, VS).y,
                                 MulF64(Vector(r.value, g.value, b.value), CS, VS).z),
                          Round(CS * i, NUMBER_OF_SPHERES)),
         rng |-> b.rng] :
            b \in {next_f64(g.rng)}}) :
            g \in {next_f64(r.rng)}}) :
            r \in {next_f64(rng)}})

\* material.rs, impl Material for Lambertian
Lambertian_scatter(mtl, incident, hit, rng) ==
    The({The({
        [ray |-> Ray_new(hit.position, Sub(target, hit.position),
                         incident.t_min, incident.t_max),
         attenuation |-> mtl.albedo,
         rng |-> rnd.rng] :
            target \in {Add(Add(hit.position, hit.normal), rnd.p)}}) :
            rnd \in {random_in_unit_sphere(rng)}})

\* material.rs, impl Material for Metallic
Metallic_scatter(mtl, incident, hit, rng) ==
    The({[ray |-> Ray_new(hit.position,
                          Add(reflected, MulF64(rnd.p, mtl.glossiness, CS)),
                          incident.t_min, incident.t_max),
          attenuation |-> mtl.albedo,
          rng |-> rnd.rng] :
            reflected \in {reflect(normalize(incident.direction), hit.normal)},
            rnd \in {random_in_unit_sphere(rng)}})

\* material.rs, struct Dielectric: ior in hundredths
Dielectric(ior) == [type |-> "Dielectric", ior |-> ior]

\* material.rs:101-102: r0 = ((1 - ior) / (1 + ior))^2, in hundredths
Schlick_r0(ior) == Round(CS * (CS - ior) * (CS - ior), (CS + ior) * (CS + ior))

\* material.rs:106-111: the normal turned against the ray, and the ior the
\* rest of the function uses, as the fraction n / d: 1 / self.ior for a ray
\* that comes from outside, self.ior (inverted twice) for one from inside
Dielectric_side(mtl, incident, hit) ==
    IF dot(incident.direction, hit.normal) > 0
    THEN [outward_normal |-> MulF64(hit.normal, -1, 1), n |-> mtl.ior, d |-> CS]
    ELSE [outward_normal |-> hit.normal, n |-> CS, d |-> mtl.ior]

\* material.rs:114: cos_theta_i, in units of 1 / VS^2
cos_theta_i(incident, side) == -dot(incident.direction, side.outward_normal)
\* material.rs:115: cos_theta_t = 1 - ior^2 * (1 - cos_theta_i^2), in units
\* of 1 / (VS^4 * d^2)
cos_theta_t(side, ci) ==
    VS * VS * VS * VS * side.d * side.d
        - side.n * side.n * (VS * VS * VS * VS - ci * ci)
\* material.rs:118: r0 + (1 - r0) * (1 - cos_theta_i)^5, in hundredths
probability_of_reflection(r0, ci) ==
    The({r0 + Round((CS - r0) * (one_minus * one_minus * one_minus
                                 * one_minus * one_minus),
                    VS * VS * VS * VS * VS * VS * VS * VS * VS * VS) :
            one_minus \in {VS * VS - ci}})

\* material.rs:121: `cos_theta_t > 0.0 && rng.next_f64() > ..`: the right
\* operand of && is evaluated, and the generator asked, only if the left holds
ShouldDrawAlways(ct) == TRUE
ShouldDraw(ct) == ct > 0

\* material.rs, impl Material for Dielectric.  The value of line 131
\* (incident.direction.refract) is not used.  A NaN direction makes every
\* comparison false: no draw, and the reflection of NaN.
Dielectric_scatter(mtl, incident, hit, rng) ==
    IF IsNaN(incident.direction)
    THEN [ray |-> Ray_new(hit.position, NaN3, incident.t_min, incident.t_max),
          attenuation |-> Vector_one, rng |-> rng]
    ELSE The({The({The({The({The({
        [ray |-> Ray_new(hit.position,
                         IF ct > 0 /\ ShouldDraw(ct) /\ CS * drawn.value > VS * pr
                         THEN Add(MulF64(incident.direction, side.n, side.d),
                                  MulF64(side.outward_normal,
                                         side.n * ci - Sqrt(ct),
                                         VS * VS * side.d))
                         ELSE reflect(incident.direction, side.outward_normal),
                         incident.t_min, incident.t_max),
         attenuation |-> Vector_one,
         rng |-> drawn.rng] :
            drawn \in {IF ShouldDraw(ct) THEN next_f64(rng)
                       ELSE [value |-> 0, rng |-> rng]}}) :
            pr \in {probability_of_reflection(Schlick_r0(mtl.ior), ci)}}) :
            ct \in {cos_theta_t(side, ci)}}) :
            ci \in {cos_theta_i(incident, side)}}) :
            side \in {Dielectric_side(mtl, incident, hit)}})

\* material.scatter(&r, &intersection, &mut attenuation), by the material's type
scatter(mtl, incident, hit, rng) ==
    CASE mtl.type = "Lambertian" -> Lambertian_scatter(mtl, incident, hit, rng)
      [] mtl.type = "Metallic"   -> Metallic_scatter(mtl, incident, hit, rng)
      [] mtl.type = "Dielectric" -> Dielectric_scatter(mtl, incident, hit, rng)

\* ----------------------------------------------------------------- scenes
\* A sphere of a scene is its material, the normal at its hit points, and
\* the quadratic's coefficients <<p, q>> a ray pointing up (direction.y >= 0)
\* or down sees (shape.rs:45-46 computes them from center and radius).
Sphere(mtl, normal, up, down) ==
    [material |-> mtl, normal |-> normal, up |-> up, down |-> down]
Hits == <<-5, 16>>
Misses == <<-5, 30>>
ground_sphere(albedo) ==
    Sphere(Lambertian(albedo), Vector(0, VS, 0), Misses, Hits)
ceiling_sphere ==
    Sphere(Metallic(Vector(80, 80, 80), 50), Vector(0, -VS, 0), Hits, Misses)

\* the items of the scene as the ray sees them
Seen(scene, ray) ==
    [k \in 1..Len(scene) |->
        LET pq == IF ray.direction.y >= 0 THEN scene[k].up ELSE scene[k].down
        IN  [a |-> 1, p |-> pq[1], q |-> pq[2],
             material |-> scene[k].material, normal |-> scene[k].normal]]

\* scene.intersect(&r, 0.001, f64::MAX) of main.rs:62.  With a NaN direction
\* every comparison of Sphere::intersect is false and every item answers None.
scene_intersect(scene, ray) ==
    IF IsNaN(ray.direction) THEN Miss
    ELSE Intersect("ShapeAggregate", Seen(scene, ray), T_MIN, F64_MAX)

\* the hit record trace hands to scatter
HitRecord(ray, isect) ==
    The({[t |-> isect.t, position |-> position,
          normal |-> isect.shape.normal, material |-> isect.shape.material] :
            position \in {point_at(ray, isect.t)}})

\* ------------------------------------------------------------------ trace
white == Vector(CS, CS, CS)
blue == Vector(50, 70, CS)

\* main.rs:66, the guard of the scatter
CanScatterOffByOne(d) == d <= MAX_DEPTH
CanScatter(d) == d < MAX_DEPTH

\* main.rs:77-92, the Miss arm: the normalized copy of r.direction is
\* dropped, the gradient is formed from r.direction as stored
BackgroundSwapped(ray) ==
    LET t == Round(CS * (ray.direction.y + VS), 2 * VS)
    IN  Add(MulF64(blue, CS - t, CS), MulF64(white, t, CS))
Background(ray) ==
    IF IsNaN(ray.direction) THEN NaN3
    ELSE LET unit_direction == ray.direction
         IN  The({Add(MulF64(white, CS - t, CS), MulF64(blue, t, CS)) :
                     t \in {Round(CS * (unit_direction.y + VS), 2 * VS)}})

\* main.rs:61-94 as a whole: [col, rng, scatters]
RECURSIVE trace(_, _, _, _)
trace(ray, scene, d, rng) ==
    The({
        IF isect.hit
        THEN IF CanScatter(d)
             THEN The({The({
                      [col |-> Mul(sc.attenuation, sub.col), rng |-> sub.rng,
                       scatters |-> sub.scatters + 1] :
                          sub \in {trace(sc.ray, scene, d + 1, sc.rng)}}) :
                          sc \in {scatter(HitRecord(ray, isect).material, ray,
                                          HitRecord(ray, isect), rng)}})
             ELSE [col |-> Vector_zero, rng |-> rng, scatters |-> 0]
        ELSE [col |-> Background(ray), rng |-> rng, scatters |-> 0] :
            isect \in {scene_intersect(scene, ray)}})

\* ------------------------------------------------- machines not running
ScanIdle ==
    /\ kind = "ShapeAggregate" /\ items = <<>> /\ t_min = T_MIN /\ t_max = F64_MAX
    /\ idx = 1 /\ closest_t = F64_MAX /\ closest_intersection = Miss
    /\ tested = <<>> /\ scan_pc = "idle"
TraceIdle ==
    /\ tr_scene = <<>> /\ tr_start = 0 /\ tr_first = Vector_zero
    /\ tr_ray = Vector_zero /\ depth = 0 /\ intersection = Miss /\ pending = <<>>
    /\ tr_rng = Rng(0) /\ scatters = 0 /\ result = Vector_zero /\ tr_pc = "idle"
CallIdle ==
    /\ callee = "none" /\ args = <<>> /\ call_rng = Rng(0)
    /\ returned = <<>> /\ call_pc = "idle"
RenderIdle ==
    /\ RES_X = 1 /\ RES_Y = 1 /\ NUMBER_OF_THREADS = 1
    /\ build = [overflow_checks |-> TRUE, nan_cast |-> 0]
    /\ shared_scene = <<>> /\ child_threads = <<>> /\ threads = <<>>
    /\ joined = 0 /\ file_contents = <<>> /\ file = <<>>
    /\ finish_order = <<>> /\ main_pc = "idle"

\* ------------------------------------------------------------ scan inputs
Kinds == {"ShapeAggregate", "HitableList", "Scene"}
Coefficients == {<<-5, 16>>, <<-5, 25>>, <<-5, 30>>, <<-3, 8>>, <<-1, -3>>}
Materials == {"ground_mtl", "large_mtl"}
ItemSet == {[a |-> 1, p |-> pq[1], q |-> pq[2], material |-> m] :
                pq \in Coefficients, m \in Materials}
SeqsUpTo(S, n) == UNION {[1..k -> S] : k \in 0..n}
LowerBounds == {0, T_MIN}
UpperBounds == {7, F64_MAX}

ScanInit ==
    /\ kind \in Kinds
    /\ items \in SeqsUpTo(ItemSet, MaxItems)
    /\ t_min \in LowerBounds
    /\ t_max \in UpperBounds
    /\ idx = 1
    /\ closest_t = t_max
    /\ closest_intersection = Miss
    /\ tested = <<>>
    /\ scan_pc = "loop"
    /\ TraceIdle
    /\ RenderIdle
    /\ CallIdle

\* the loop body for items[idx]
ScanTest ==
    /\ scan_pc = "loop"
    /\ idx <= Len(items)
    /\ LET acc == ScanItem(kind, [closest_t |-> closest_t,
                                  closest_intersection |-> closest_intersection],
                           items[idx], t_min, t_max)
       IN  /\ closest_t' = acc.closest_t
           /\ closest_intersection' = acc.closest_intersection
    /\ tested' = Append(tested, [lower |-> t_min,
                                 upper |-> Upper(kind, t_max, closest_t),
                                 closest_so_far |-> closest_t])
    /\ idx' = idx + 1
    /\ UNCHANGED <<kind, items, t_min, t_max, scan_pc>>
    /\ UNCHANGED <<trace_vars, render_vars, call_vars>>

\* the loop is over: closest_intersection is returned
ScanReturn ==
    /\ scan_pc = "loop"
    /\ idx > Len(items)
    /\ scan_pc' = "done"
    /\ UNCHANGED <<kind, items, t_min, t_max, idx, closest_t,
                   closest_intersection, tested>>
    /\ UNCHANGED <<trace_vars, render_vars, call_vars>>

\* -------------------------------------------------- claims about the scan
\* what items[k] answers on its own when asked about the caller's interval
Own(k) == ItemTest(kind, items[k], t_min, t_max)
InInterval(h) == h.hit /\ h.t > t_min /\ h.t < t_max
Orderings(s) ==
    LET n == Len(s)
    IN  {[i \in 1..n |-> s[f[i]]] :
            f \in {g \in [1..n -> 1..n] : \A i, j \in 1..n : g[i] = g[j] => i = j}}
GlobalMinimum ==
    /\ closest_intersection.hit =>
          \A k \in 1..Len(items) :
              InInterval(Own(k)) => closest_intersection.t <= Own(k).t
    /\ ~closest_intersection.hit => \A k \in 1..Len(items) : ~InInterval(Own(k))

\* C5 as stated: the finished scan returns a hit no farther than any item's
\* own hit in the interval, Miss only if no item hits in the interval, and
\* the same result for every order of the items.
C5_AsStated ==
    scan_pc = "done" =>
        /\ GlobalMinimum
        /\ \A s \in Orderings(items) :
              Intersect(kind, s, t_min, t_max) = closest_intersection

\* C5 amended: the finished scan returns a hit no farther than any item's own
\* hit in the interval and Miss only if no item hits in the interval; whether
\* it hits, and at which t, is the same for every order of the items; of
\* several items hitting at that t, the one earliest in the order is retained.
C5_NearestHit ==
    scan_pc = "done" =>
        /\ GlobalMinimum
        /\ \A s \in Orderings(items) :
              LET r == Intersect(kind, s, t_min, t_max)
              IN  /\ r.hit = closest_intersection.hit
                  /\ r.hit => r.t = closest_intersection.t
        /\ closest_intersection.hit =>
              \E k \in 1..Len(items) :
                  /\ Own(k) = closest_intersection
                  /\ \A j \in 1..(k - 1) :
                        ~(Own(j).hit /\ Own(j).t <= closest_intersection.t)

\* two items hit inside the interval, the later one closer, and it is returned
C5_Witness ==
    /\ scan_pc = "done"
    /\ Len(items) = 2
    /\ InInterval(Own(1)) /\ InInterval(Own(2))
    /\ Own(2).t < Own(1).t
    /\ closest_intersection = Own(2)

\* C10 as stated: every item is tested against (t_min, closest_so_far), the
\* upper bound being the t of the hit retained by then.
C10_AsStated ==
    \A k \in 1..Len(tested) :
        /\ tested[k].lower = t_min
        /\ tested[k].upper = tested[k].closest_so_far

\* C10 amended: every item is tested against the caller's own (t_min, t_max);
\* closest_so_far starts at t_max and is lowered to an item's t exactly when
\* that item hits with t < closest_so_far, and it is the t of the retained hit.
C10_FullInterval ==
    /\ \A k \in 1..Len(tested) :
          /\ tested[k].lower = t_min
          /\ tested[k].upper = t_max
          /\ tested[k].closest_so_far =
                IF k = 1 THEN t_max
                ELSE IF Own(k - 1).hit /\ Own(k - 1).t < tested[k - 1].closest_so_far
                     THEN Own(k - 1).t
                     ELSE tested[k - 1].closest_so_far
    /\ closest_t = IF closest_intersection.hit THEN closest_intersection.t ELSE t_max

\* an item was tested after a hit had been retained
C10_Witness ==
    \E k \in 1..Len(tested) : tested[k].closest_so_far < tested[k].upper

\* what the sphere test is said to answer: Miss on a discriminant <= 0, else
\* the smaller root if strictly inside (lo, hi), else the larger root if
\* strictly inside (lo, hi), else Miss
RootsInInterval(item, lo, hi) ==
    LET discriminant == item.p * item.p - item.a * item.q
    IN  IF discriminant <= 0 THEN Miss
        ELSE LET smaller == (-item.p - Sqrt(discriminant)) \div item.a
                 larger == (-item.p + Sqrt(discriminant)) \div item.a
             IN  IF smaller > lo /\ smaller < hi THEN Hit(smaller, item)
                 ELSE IF larger > lo /\ larger < hi THEN Hit(larger, item)
                 ELSE Miss

\* C11, as stated: the sphere test of shape.rs and of hitable.rs answers
\* Miss on a discriminant <= 0, else the smaller root if it is strictly
\* inside the caller's (t_min, t_max), else the larger root if it is, else
\* Miss; so every hit it returns has t_min < t < t_max
C11_SphereTest ==
    kind \in {"ShapeAggregate", "HitableList"} =>
        \A k \in 1..(idx - 1) :
            /\ Own(k) = RootsInInterval(items[k], t_min, t_max)
            /\ Own(k).hit => Own(k).t > t_min /\ Own(k).t < t_max

\* the scan of shape.rs has retained a hit whose t is not above t_min
C11_Witness ==
    /\ kind = "ShapeAggregate"
    /\ closest_intersection.hit
    /\ closest_intersection.t <= t_min
    /\ \E k \in 1..(idx - 1) : Own(k) = closest_intersection

ScanNext == ScanTest \/ ScanReturn

SpecScan == ScanInit /\ [][ScanNext]_vars
\* ====================================================== one call of trace
\* bound of the model: the outermost call's depth argument goes up to
\* MAX_DEPTH + MaxExtraDepth
MaxExtraDepth == 1
SeedSet == {0, 5}
RawDirections == {Vector(0, 3, 0), Vector(0, -2, 0), Vector(4, 0, -4),
                  Vector(3, -4, 0), Vector(-1, 1, -1)}
TraceScenes == {<<>>,
                <<ground_sphere(Vector(CS, 98, 96))>>,
                <<ground_sphere(Vector(120, 120, 120))>>,
                <<ground_sphere(Vector(CS, 98, 96)), ceiling_sphere>>}

TraceInit ==
    /\ tr_scene \in TraceScenes
    /\ tr_start \in {0, 1} \cup (MAX_DEPTH .. MAX_DEPTH + MaxExtraDepth)
    /\ \E d \in RawDirections : tr_first = Ray_new(Vector_origin, d, T_MIN, F64_MAX)
    /\ tr_ray = tr_first
    /\ depth = tr_start
    /\ intersection = Miss
    /\ pending = <<>>
    /\ \E seed \in SeedSet : tr_rng = Rng(seed)
    /\ scatters = 0
    /\ result = Vector_zero
    /\ tr_pc = "intersect"
    /\ ScanIdle
    /\ RenderIdle
    /\ CallIdle

\* main.rs:62: let intersection = scene.intersect(&r, 0.001, std::f64::MAX)
TraceIntersect ==
    /\ tr_pc = "intersect"
    /\ intersection' = scene_intersect(tr_scene, tr_ray)
    /\ tr_pc' = "match"
    /\ UNCHANGED <<tr_scene, tr_start, tr_first, tr_ray, depth, pending, tr_rng,
                   scatters, result>>
    /\ UNCHANGED <<scan_vars, render_vars, call_vars>>

\* main.rs:64-71: Hit below the depth limit.  The material's scatter is
\* called; it yields a bounce ray and trace is called on it at depth + 1, or
\* it yields None (the Option of main.rs:67) and the call returns black.
TraceScatter ==
    /\ tr_pc = "match"
    /\ intersection.hit
    /\ CanScatter(depth)
    /\ \E hit \in {HitRecord(tr_ray, intersection)} :
       \E sc \in {scatter(hit.material, tr_ray, hit, tr_rng)} :
           /\ scatters' = scatters + 1
           /\ tr_rng' = sc.rng
           /\ \E absorbed \in BOOLEAN :
                IF absorbed
                THEN /\ result' = Vector_zero
                     /\ tr_pc' = "return"
                     /\ UNCHANGED <<tr_ray, depth, pending>>
                ELSE /\ pending' = Append(pending, sc.attenuation)
                     /\ tr_ray' = sc.ray
                     /\ depth' = depth + 1
                     /\ tr_pc' = "intersect"
                     /\ UNCHANGED result
    /\ UNCHANGED <<tr_scene, tr_start, tr_first, intersection>>
    /\ UNCHANGED <<scan_vars, render_vars, call_vars>>

\* main.rs:72-74: Hit at the depth limit returns Vector::zero()
TraceCutoff ==
    /\ tr_pc = "match"
    /\ intersection.hit
    /\ ~CanScatter(depth)
    /\ result' = Vector_zero
    /\ tr_pc' = "return"
    /\ UNCHANGED <<tr_scene, tr_start, tr_first, tr_ray, depth, intersection,
                   pending, tr_rng, scatters>>
    /\ UNCHANGED <<scan_vars, render_vars, call_vars>>

\* main.rs:77-92: Miss returns the background gradient
TraceMiss ==
    /\ tr_pc = "match"
    /\ ~intersection.hit
    /\ result' = Background(tr_ray)
    /\ tr_pc' = "return"
    /\ UNCHANGED <<tr_scene, tr_start, tr_first, tr_ray, depth, intersection,
                   pending, tr_rng, scatters>>
    /\ UNCHANGED <<scan_vars, render_vars, call_vars>>

\* main.rs:68: the caller multiplies the callee's value by its attenuation
TraceReturn ==
    /\ tr_pc = "return"
    /\ IF pending = <<>>
       THEN /\ tr_pc' = "done"
            /\ UNCHANGED <<depth, pending, result>>
       ELSE /\ result' = Mul(pending[Len(pending)], result)
            /\ pending' = SubSeq(pending, 1, Len(pending) - 1)
            /\ depth' = depth - 1
            /\ UNCHANGED tr_pc
    /\ UNCHANGED <<tr_scene, tr_start, tr_first, tr_ray, intersection, tr_rng,
                   scatters>>
    /\ UNCHANGED <<scan_vars, render_vars, call_vars>>

TraceNext ==
    TraceIntersect \/ TraceScatter \/ TraceCutoff \/ TraceMiss \/ TraceReturn

\* a call that can take a step takes it: the thread running trace is scheduled
SpecTrace == TraceInit /\ [][TraceNext]_vars /\ WF_vars(TraceNext)

\* ------------------------------------------------- claims about the trace
\* C6: a call of trace from depth 0 never has its depth counter above
\* MAX_DEPTH and never calls scatter more than MAX_DEPTH times; a hit at depth
\* >= MAX_DEPTH returns black with no scatter and no draw; every call returns.
C6_DepthBounded ==
    /\ [](tr_start = 0 =>
            depth <= MAX_DEPTH /\ scatters <= MAX_DEPTH /\ Len(pending) <= MAX_DEPTH)
    /\ [][(tr_pc = "match" /\ intersection.hit /\ depth >= MAX_DEPTH) =>
            (result' = Vector_zero /\ scatters' = scatters /\ tr_rng' = tr_rng
             /\ tr_pc' = "return")]_vars
    /\ <>(tr_pc = "done")

\* a call from depth 0 has scattered MAX_DEPTH times and hits at the limit
C6_Witness ==
    /\ tr_start = 0 /\ tr_pc = "match" /\ intersection.hit
    /\ depth = MAX_DEPTH /\ scatters = MAX_DEPTH

\* the gradient lerp(white, blue, t), t = 0.5 * (direction.y + 1)
BackgroundGradient(d) ==
    LET t == Round(CS * (d.y + VS), 2 * VS)
    IN  Vector(white.x + Round((blue.x - white.x) * t, CS),
               white.y + Round((blue.y - white.y) * t, CS),
               white.z + Round((blue.z - white.z) * t, CS))

\* C7: on an empty scene a call of trace, at whatever depth, returns the
\* background gradient of its ray's direction, draws nothing from the
\* generator and calls no scatter.
C7_EmptyScene ==
    (tr_pc = "done" /\ tr_scene = <<>>) =>
        /\ result = BackgroundGradient(tr_first.direction)
        /\ tr_rng.draws = 0
        /\ scatters = 0

\* a call at a depth past the limit has returned on the empty scene
C7_Witness ==
    /\ tr_pc = "done" /\ tr_scene = <<>> /\ tr_start > MAX_DEPTH
    /\ result = BackgroundGradient(tr_first.direction)
    /\ result # white
\* ============================================================= the render
\* bounds of the model
MaxRes == 3
MaxThreads == 2

SAMPLES == 1            \* main.rs: const SAMPLES: u32 = 1
GAMMA_NUM == 5          \* main.rs: const GAMMA: f64 = 1.0 / 2.2 = 5 / 11
GAMMA_DEN == 11
U32_MOD == 512          \* the modulus of the u32 arithmetic, narrowed to 9 bits
MAXVAL == 255           \* main.rs:232, the header's third line

LOWER_LEFT_CORNER == Vector(-1, -1, -1)
HORIZONTAL == Vector(2, 0, 0)
VERTICAL == Vector(0, 2, 0)
ORIGIN == Vector(0, 0, 0)

\* main.rs:117, RES_Y - y on u32: the difference, wrapped when y > RES_Y
\* (a build with overflow checks panics there instead)
SubU32(a, b) == (a - b + U32_MOD) % U32_MOD

\* main.rs:116-119: LOWER_LEFT_CORNER + HORIZONTAL * u + VERTICAL * v with
\* u = (x + du) / RES_X and v = (h + dv) / RES_Y, du and dv in quarters; the
\* vector is kept exact by scaling it with VS * RES_X * RES_Y
CameraDirection(x, h, du, dv) ==
    LET den == VS * RES_X * RES_Y
        un == (VS * x + du) * RES_Y
        vn == (VS * h + dv) * RES_X
    IN  Vector(LOWER_LEFT_CORNER.x * den + HORIZONTAL.x * un + VERTICAL.x * vn,
               LOWER_LEFT_CORNER.y * den + HORIZONTAL.y * un + VERTICAL.y * vn,
               LOWER_LEFT_CORNER.z * den + HORIZONTAL.z * un + VERTICAL.z * vn)

\* main.rs:116-117: u and v as exact fractions, h being RES_Y - y and the
\* offsets du, dv in quarters
UV(x, h, du, dv) ==
    [u |-> [num |-> VS * x + du, den |-> VS * RES_X],
     v |-> [num |-> VS * h + dv, den |-> VS * RES_Y]]

\* main.rs:113-121, the anti-aliasing loop from sample s on: [col, rng], and
\* as history the u and v of each sample
RECURSIVE Samples(_, _, _, _, _)
Samples(s0, x, y, col, rng) ==
    IF s0 >= SAMPLES THEN [col |-> col, rng |-> rng, uvs |-> <<>>]
    ELSE The({The({The({The({The({
             [col |-> rest.col, rng |-> rest.rng,
              uvs |-> <<UV(x, SubU32(RES_Y, y), du.value, dv.value)>> \o rest.uvs] :
                rest \in {Samples(s0 + 1, x, y, Add(col, tr.col), tr.rng)}}) :
                tr \in {trace(ray, shared_scene, 0, dv.rng)}}) :
                ray \in {Ray_new(ORIGIN,
                                 CameraDirection(x, SubU32(RES_Y, y), du.value, dv.value),
                                 T_MIN, F64_MAX)}}) :
                dv \in {next_f64(du.rng)}}) :
                du \in {next_f64(rng)}})

\* b^n in hundredths
RECURSIVE FPow(_, _)
FPow(b, n) == IF n = 0 THEN CS ELSE Round(FPow(b, n - 1) * b, CS)
\* the largest g of lo..hi with g^GAMMA_DEN <= target
RECURSIVE Root(_, _, _)
Root(lo, hi, target) ==
    IF lo >= hi THEN lo
    ELSE The({IF FPow(mid, GAMMA_DEN) <= target THEN Root(mid, hi, target)
              ELSE Root(lo, mid - 1, target) :
                 mid \in {(lo + hi + 1) \div 2}})
\* f64::powf(GAMMA) of a channel c >= 0: c^(5/11), up to 2.0
powf(c) == Root(0, 2 * CS, FPow(c, GAMMA_NUM))

\* main.rs:125-133 for one channel: powf(GAMMA), times 255.99, `as u32`.
\* powf of a negative number is NaN, and the cast of NaN is not defined by
\* the language of that time: nan is what the build's cast makes of it.
Channel(c, nan) ==
    IF c < 0 THEN nan
    ELSE (25599 * powf(c)) \div (100 * CS)

\* main.rs:106-135, the body of the pixel loop: the Color pushed and the
\* generator after it
Pixel(x, y, rng) ==
    The({The({
        [color |-> IF IsNaN(col)
                   THEN <<build.nan_cast, build.nan_cast, build.nan_cast>>
                   ELSE <<Channel(col.x, build.nan_cast),
                          Channel(col.y, build.nan_cast),
                          Channel(col.z, build.nan_cast)>>,
         rng |-> acc.rng,
         uvs |-> acc.uvs] :
            col \in {MulF64(acc.col, 1, SAMPLES)}}) :
            acc \in {Samples(0, x, y, Vector_zero, rng)}})

\* main.rs:235-236: the band of worker i, start and end as (column, row)
BandRows(i) == RES_X \div NUMBER_OF_THREADS
Band(i) == [start |-> <<0, i * BandRows(i)>>,
            end |-> <<RES_Y, (i + 1) * BandRows(i)>>]

\* a buffer entry: the Color, and as history the pixel it was computed for
\* and the u, v of its samples
Entry(x, y, uvs, color) == [x |-> x, y |-> y, uvs |-> uvs, color |-> color]

\* main.rs:245: format!("{} {} {}\n", item.0, item.1, item.2), with the
\* entry's history kept beside the line
FormatLine(e) == [x |-> e.x, y |-> e.y,
                  line |-> <<e.color[1], " ", e.color[2], " ", e.color[3], "\n">>]
Format(colors) == [k \in 1..Len(colors) |-> FormatLine(colors[k])]

\* main.rs:232: format!("P3\n{} {}\n255\n", RES_X, RES_Y)
Header == <<"P3", "\n", RES_X, " ", RES_Y, "\n", MAXVAL, "\n">>

\* ------------------------------------------------------------ inputs
Builds == {[overflow_checks |-> TRUE, nan_cast |-> 0],
           [overflow_checks |-> FALSE, nan_cast |-> 0],
           [overflow_checks |-> FALSE, nan_cast |-> U32_MOD - 1]}
RenderScenes == {<<ground_sphere(Vector(CS, 98, 96))>>,
                <<ground_sphere(Vector(-50, 98, 120))>>}

Init ==
    /\ RES_X \in 1..MaxRes
    /\ RES_Y \in 1..MaxRes
    /\ NUMBER_OF_THREADS \in 1..MaxThreads
    /\ build \in Builds
    /\ shared_scene \in RenderScenes
    /\ child_threads = <<>>
    /\ threads = <<>>
    /\ joined = 0
    /\ file_contents = [header |-> Header, pixels |-> <<>>]
    /\ file = <<>>
    /\ finish_order = <<>>
    /\ main_pc = "spawn"
    /\ ScanIdle
    /\ TraceIdle
    /\ CallIdle

Running == main_pc \in {"spawn", "join"}
Thread(i) == threads[i + 1]

\* main.rs:234-239: one turn of the spawn loop; the thread's generator is
\* seeded by the operating system when the thread first asks for it
Spawn ==
    /\ main_pc = "spawn"
    /\ LET i == Len(child_threads)
       IN  /\ i < NUMBER_OF_THREADS
           /\ \E seed \in SeedSet :
                threads' = Append(threads,
                    [start |-> Band(i).start, end |-> Band(i).end,
                     x |-> Band(i).start[1], y |-> Band(i).start[2],
                     colors |-> <<>>, seed |-> seed, rng |-> Rng(seed),
                     status |-> "running"])
           /\ child_threads' = Append(child_threads, i)
           /\ main_pc' = IF i + 1 = NUMBER_OF_THREADS THEN "join" ELSE "spawn"
    /\ UNCHANGED <<RES_X, RES_Y, NUMBER_OF_THREADS, build, shared_scene, joined,
                   file_contents, file, finish_order>>
    /\ UNCHANGED <<scan_vars, trace_vars, call_vars>>

\* the generator a worker draws from: its own thread's
ThreadRngOfFirst(ths, i) == ths[1].rng
ThreadRng(ths, i) == ths[i + 1].rng

\* main.rs:102-136: worker i computes the pixel under its cursor and pushes it
WorkerPixel(i) ==
    /\ Running
    /\ i < Len(threads)
    /\ Thread(i).status = "running"
    /\ Thread(i).y < Thread(i).end[2]
    /\ Thread(i).x < Thread(i).end[1]
    /\ ~(build.overflow_checks /\ Thread(i).y > RES_Y)
    /\ \E px \in {Pixel(Thread(i).x, Thread(i).y, ThreadRng(threads, i))} :
         LET last == Thread(i).x + 1 >= Thread(i).end[1]
         IN  threads' = [threads EXCEPT ![i + 1] =
                [@ EXCEPT !.colors = Append(@, Entry(Thread(i).x, Thread(i).y, px.uvs, px.color)),
                          !.rng = px.rng,
                          !.x = IF last THEN Thread(i).start[1] ELSE @ + 1,
                          !.y = IF last THEN @ + 1 ELSE @]]
    /\ UNCHANGED <<RES_X, RES_Y, NUMBER_OF_THREADS, build, shared_scene,
                   child_threads, joined, file_contents, file, finish_order, main_pc>>
    /\ UNCHANGED <<scan_vars, trace_vars, call_vars>>

\* main.rs:117: RES_Y - y overflows on a row below the image; with overflow
\* checks the worker panics
WorkerPanic(i) ==
    /\ Running
    /\ i < Len(threads)
    /\ Thread(i).status = "running"
    /\ Thread(i).y < Thread(i).end[2]
    /\ Thread(i).x < Thread(i).end[1]
    /\ build.overflow_checks /\ Thread(i).y > RES_Y
    /\ threads' = [threads EXCEPT ![i + 1].status = "panicked"]
    /\ finish_order' = Append(finish_order, i)
    /\ UNCHANGED <<RES_X, RES_Y, NUMBER_OF_THREADS, build, shared_scene,
                   child_threads, joined, file_contents, file, main_pc>>
    /\ UNCHANGED <<scan_vars, trace_vars, call_vars>>

\* main.rs:138: the row loop is over, the worker returns its buffer
WorkerReturn(i) ==
    /\ Running
    /\ i < Len(threads)
    /\ Thread(i).status = "running"
    /\ Thread(i).y >= Thread(i).end[2]
    /\ threads' = [threads EXCEPT ![i + 1].status = "finished"]
    /\ finish_order' = Append(finish_order, i)
    /\ UNCHANGED <<RES_X, RES_Y, NUMBER_OF_THREADS, build, shared_scene,
                   child_threads, joined, file_contents, file, main_pc>>
    /\ UNCHANGED <<scan_vars, trace_vars, call_vars>>

\* main.rs:242: the child the join loop waits for next: the handles in spawn order
NextChildByCompletion(cts, j, fin) == IF j < Len(fin) THEN fin[j + 1] ELSE cts[j + 1]
NextChild(cts, j, fin) == cts[j + 1]

\* main.rs:243: child.join().unwrap(): the buffer of a finished thread, a
\* panic of main for a thread that panicked
JoinLenient(th) == [ok |-> TRUE, res |-> th.colors]
JoinUnwrap(th) == [ok |-> th.status = "finished", res |-> th.colors]

\* main.rs:242-248: one turn of the join loop
Join ==
    /\ main_pc = "join"
    /\ joined < NUMBER_OF_THREADS
    /\ LET child == NextChild(child_threads, joined, finish_order)
           got == JoinUnwrap(Thread(child))
       IN  /\ Thread(child).status \in {"finished", "panicked"}
           /\ IF got.ok
              THEN /\ file_contents' = [file_contents EXCEPT
                                           !.pixels = @ \o Format(got.res)]
                   /\ joined' = joined + 1
                   /\ main_pc' = IF joined + 1 = NUMBER_OF_THREADS
                                 THEN "write" ELSE "join"
              ELSE /\ main_pc' = "panicked"
                   /\ UNCHANGED <<file_contents, joined>>
    /\ UNCHANGED <<RES_X, RES_Y, NUMBER_OF_THREADS, build, shared_scene,
                   child_threads, threads, file, finish_order>>
    /\ UNCHANGED <<scan_vars, trace_vars, call_vars>>

\* main.rs:253-260: file.write_all(file_contents.as_bytes()); an I/O error
\* leaves some prefix of the bytes in the file and main panics
Write ==
    /\ main_pc = "write"
    /\ \/ /\ file' = <<file_contents>>
          /\ main_pc' = "done"
       \/ /\ \E n \in {0, Len(file_contents.pixels) \div 2} :
                file' = <<[header |-> file_contents.header,
                           pixels |-> SubSeq(file_contents.pixels, 1, n)]>>
          /\ main_pc' = "panicked"
    /\ UNCHANGED <<RES_X, RES_Y, NUMBER_OF_THREADS, build, shared_scene,
                   child_threads, threads, joined, file_contents, finish_order>>
    /\ UNCHANGED <<scan_vars, trace_vars, call_vars>>

Next ==
    \/ Spawn
    \/ \E i \in 0..(MaxThreads - 1) : WorkerPixel(i) \/ WorkerPanic(i) \/ WorkerReturn(i)
    \/ Join
    \/ Write

Spec == Init /\ [][Next]_vars

\* ------------------------------------------------------------ claims
InBand(i, y) == Thread(i).start[2] <= y /\ y < Thread(i).end[2]
Workers == 0..(NUMBER_OF_THREADS - 1)

\* C1, as stated: once every worker has its band, the bands partition the
\* image rows: each row y of 0..RES_Y-1 lies in exactly one band and no band
\* ends past the last row
C1_RowsPartitioned ==
    main_pc # "spawn" =>
        /\ \A y \in 0..(RES_Y - 1) :
              Cardinality({i \in Workers : InBand(i, y)}) = 1
        /\ \A i \in Workers : Thread(i).end[2] <= RES_Y

\* a square image whose height is no multiple of the worker count: the last
\* row is in no band
C1_Witness ==
    /\ main_pc = "join"
    /\ RES_X = 3 /\ RES_Y = 3 /\ NUMBER_OF_THREADS = 2
    /\ \A i \in Workers : ~InBand(i, RES_Y - 1)

\* C2, as stated: after a completed render the file holds the header
\* P3 / RES_X RES_Y / 255 and then RES_X * RES_Y pixel lines, the k-th one
\* (from 0) for the pixel at column k mod RES_X of row k div RES_X
C2_RowMajorOutput ==
    main_pc = "done" =>
        /\ Len(file) = 1
        /\ file[1].header = <<"P3", "\n", RES_X, " ", RES_Y, "\n", 255, "\n">>
        /\ Len(file[1].pixels) = RES_X * RES_Y
        /\ \A k \in 0..(Len(file[1].pixels) - 1) :
              /\ file[1].pixels[k + 1].x = k % RES_X
              /\ file[1].pixels[k + 1].y = k \div RES_X

\* a completed render of an image one pixel wide and two high: two lines,
\* both of row 0, the second for a column the image does not have
C2_Witness ==
    /\ main_pc = "done"
    /\ RES_X = 1 /\ RES_Y = 2 /\ NUMBER_OF_THREADS = 1
    /\ Len(file[1].pixels) = 2
    /\ file[1].pixels[2].x = 1 /\ file[1].pixels[2].y = 0

\* the buffers of workers 0..n-1, formatted, one after the other
RECURSIVE BuffersInBandOrder(_)
BuffersInBandOrder(n) ==
    IF n = 0 THEN <<>>
    ELSE BuffersInBandOrder(n - 1) \o Format(Thread(n - 1).colors)

\* C3: in every interleaving, file_contents holds the buffers of the workers
\* joined so far in the order of their bands, each exactly once; main goes on
\* to write only once all of them are joined, and what it writes is the
\* buffers of workers 0, 1, .. N-1 in that order
C3_BandOrder ==
    /\ file_contents.pixels = BuffersInBandOrder(joined)
    /\ \A k \in 0..(joined - 1) : Thread(k).status = "finished"
    /\ main_pc \in {"write", "done"} => joined = NUMBER_OF_THREADS
    /\ main_pc = "done" =>
          file = <<[header |-> Header,
                    pixels |-> BuffersInBandOrder(NUMBER_OF_THREADS)]>>

\* a completed render whose second worker finished before its first, both
\* with pixels in their buffers
C3_Witness ==
    /\ main_pc = "done"
    /\ NUMBER_OF_THREADS = 2
    /\ finish_order = <<1, 0>>
    /\ Thread(0).colors # <<>> /\ Thread(1).colors # <<>>
    /\ file[1].pixels = Format(Thread(0).colors) \o Format(Thread(1).colors)

\* C4: once a worker has failed, main never gets to the write, and nothing
\* is in the file; the file is written only after every worker was joined
\* as finished
C4_NoPartialImage ==
    /\ (\E i \in 0..(Len(threads) - 1) : Thread(i).status = "panicked") =>
          /\ main_pc \notin {"write", "done"}
          /\ file = <<>>
    /\ file # <<>> =>
          /\ joined = NUMBER_OF_THREADS
          /\ \A i \in Workers : Thread(i).status = "finished"

\* a worker failed with pixels already in its buffer, main failed on its
\* join, and the file is empty
C4_Witness ==
    /\ main_pc = "panicked"
    /\ \E i \in 0..(Len(threads) - 1) :
          Thread(i).status = "panicked" /\ Thread(i).colors # <<>>
    /\ file = <<>>

\* C8, as stated: every channel of every Color in a worker's buffer is in
\* 0..255
C8_ChannelsInRange ==
    \A i \in 0..(Len(threads) - 1) :
        \A k \in 1..Len(Thread(i).colors) :
            \A c \in 1..3 : Thread(i).colors[k].color[c] \in 0..MAXVAL

\* a channel above 255 that is no cast of a NaN (the build's cast of NaN
\* is 0): the quantization of a channel above 1.0
C8_Witness ==
    /\ build.nan_cast = 0
    /\ \E i \in 0..(Len(threads) - 1) :
          \E k \in 1..Len(Thread(i).colors) :
              Thread(i).colors[k].color[3] > MAXVAL

\* threaded_color run alone: the buffer of a band from the pixel (x, y) on,
\* with the generator in state rng
RECURSIVE BandFrom(_, _, _, _, _)
BandFrom(b, x, y, rng, colors) ==
    IF y >= b.end[2] \/ (build.overflow_checks /\ y > RES_Y) THEN colors
    ELSE The({IF x + 1 >= b.end[1]
              THEN BandFrom(b, b.start[1], y + 1, px.rng,
                            Append(colors, Entry(x, y, px.uvs, px.color)))
              ELSE BandFrom(b, x + 1, y, px.rng,
                            Append(colors, Entry(x, y, px.uvs, px.color))) :
                 px \in {Pixel(x, y, rng)}})
SequentialBand(i, seed) ==
    BandFrom(Band(i), Band(i).start[1], Band(i).start[2], Rng(seed), <<>>)
\* the buffers that the seeds the workers were spawned with determine
SequentialBands == [i \in Workers |-> SequentialBand(i, Thread(i).seed)]
RECURSIVE InBandOrder(_, _)
InBandOrder(bufs, n) ==
    IF n = 0 THEN <<>> ELSE InBandOrder(bufs, n - 1) \o Format(bufs[n - 1])

IorSet == {CS, 150, 200}
IncidentDirections == {Vector(0, -4, 0), Vector(0, 3, 0), Vector(4, 1, 0),
                       Vector(4, -1, 0), Vector(3, -4, 0), Vector(3, 4, 0)}
Normals == {Vector(0, VS, 0), Vector(0, -VS, 0)}
DielectricCalls ==
    {[mtl |-> Dielectric(ior),
      incident |-> Ray_new(Vector_origin, d, T_MIN, F64_MAX),
      hit |-> [position |-> Vector_origin, normal |-> n]] :
        ior \in IorSet, d \in IncidentDirections, n \in Normals}

GlossinessSet == {-50, 0, 50, CS, 150}
AlbedoSet == {Vector(80, 80, 80)}

VectorSet == {Vector_zero, Vector(0, 3, 0), Vector(3, -4, 0), Vector(4, 0, -4),
              Vector(-1, 1, -1)}

CallInit ==
    /\ \/ /\ callee = "Dielectric::scatter"
          /\ args \in DielectricCalls
          /\ \E seed \in SeedSet : call_rng = Rng(seed)
       \/ /\ callee = "Metallic::new"
          /\ args \in {[a |-> a, g |-> g] : a \in AlbedoSet, g \in GlossinessSet}
          /\ call_rng = Rng(0)
       \/ /\ callee = "main: Metallic"
          /\ args \in {[i |-> i] : i \in 1..(NUMBER_OF_SPHERES - 1)}
          /\ \E seed \in SeedSet : call_rng = Rng(seed)
       \/ /\ callee \in {"Vector::normalize", "Ray::new"}
          /\ args \in {[v |-> v] : v \in VectorSet}
          /\ call_rng = Rng(0)
    /\ returned = <<>>
    /\ call_pc = "call"
    /\ ScanIdle
    /\ TraceIdle
    /\ RenderIdle

\* material.rs:82-136: mtl.scatter(&incident, &hit, &mut attenuation)
CallDielectricScatter ==
    /\ call_pc = "call"
    /\ callee = "Dielectric::scatter"
    /\ \E sc \in {Dielectric_scatter(args.mtl, args.incident, args.hit, call_rng)} :
          /\ returned' = [ray |-> sc.ray, attenuation |-> sc.attenuation]
          /\ call_rng' = sc.rng
    /\ call_pc' = "done"
    /\ UNCHANGED <<callee, args>>
    /\ UNCHANGED <<scan_vars, trace_vars, render_vars>>

\* material.rs:69-74: Metallic::new(&a, g)
CallMetallicNew ==
    /\ call_pc = "call"
    /\ callee = "Metallic::new"
    /\ returned' = Metallic_new(args.a, args.g)
    /\ call_pc' = "done"
    /\ UNCHANGED <<callee, args, call_rng>>
    /\ UNCHANGED <<scan_vars, trace_vars, render_vars>>

\* main.rs:202-213: one turn of the loop that builds the Metallic spheres
CallMainMetallic ==
    /\ call_pc = "call"
    /\ callee = "main: Metallic"
    /\ \E built \in {main_Metallic(args.i, call_rng)} :
          /\ returned' = built.mtl
          /\ call_rng' = built.rng
    /\ call_pc' = "done"
    /\ UNCHANGED <<callee, args>>
    /\ UNCHANGED <<scan_vars, trace_vars, render_vars>>

\* vector.rs:26-28: v.normalize()
CallNormalize ==
    /\ call_pc = "call"
    /\ callee = "Vector::normalize"
    /\ returned' = normalize(args.v)
    /\ call_pc' = "done"
    /\ UNCHANGED <<callee, args, call_rng>>
    /\ UNCHANGED <<scan_vars, trace_vars, render_vars>>

\* ray.rs:11-18: Ray::new(&origin, &v, 0.001, f64::MAX)
CallRayNew ==
    /\ call_pc = "call"
    /\ callee = "Ray::new"
    /\ returned' = Ray_new(Vector_origin, args.v, T_MIN, F64_MAX)
    /\ call_pc' = "done"
    /\ UNCHANGED <<callee, args, call_rng>>
    /\ UNCHANGED <<scan_vars, trace_vars, render_vars>>

CallNext ==
    \/ CallDielectricScatter
    \/ CallMetallicNew
    \/ CallMainMetallic
    \/ CallNormalize
    \/ CallRayNew

SpecCall == CallInit /\ [][CallNext]_vars

\* ------------------------------------------------------------ claims
\* cos_theta_t of the call, as material.rs:106-115 computes it
CallCosThetaT ==
    LET side == Dielectric_side(args.mtl, args.incident, args.hit)
    IN  cos_theta_t(side, cos_theta_i(args.incident, side))

\* C12, as stated: every call of the dielectric scatter has consumed exactly
\* one draw when it returns, total internal reflection included
C12_AsStated ==
    (call_pc = "done" /\ callee = "Dielectric::scatter") => call_rng.draws = 1

\* C12 amended: a call of the dielectric scatter consumes exactly one draw
\* when cos_theta_t > 0 and none when cos_theta_t <= 0 (total internal
\* reflection, where it returns the reflected direction)
C12_DrawUnlessTotalReflection ==
    (call_pc = "done" /\ callee = "Dielectric::scatter") =>
        /\ CallCosThetaT > 0 => call_rng.draws = 1
        /\ CallCosThetaT <= 0 =>
              /\ call_rng.draws = 0
              /\ returned.ray.direction =
                    normalize(reflect(args.incident.direction,
                        Dielectric_side(args.mtl, args.incident, args.hit).outward_normal))

\* a call under total internal reflection has returned without a draw
C12_Witness ==
    /\ call_pc = "done" /\ callee = "Dielectric::scatter"
    /\ CallCosThetaT <= 0
    /\ call_rng.draws = 0

\* g clamped to [0, 1], in hundredths
ClampedToUnit(g) == IF g < 0 THEN 0 ELSE IF g > CS THEN CS ELSE g

C14_NoNaN ==
    /\ (call_pc = "done" /\ callee = "Vector::normalize"
            /\ squared_length(args.v) = 0) =>
          /\ ~IsNaN(returned)
          /\ returned = Vector_zero
    /\ (call_pc = "done" /\ callee = "Ray::new" /\ squared_length(args.v) = 0) =>
          /\ ~IsNaN(returned.direction)
          /\ returned.direction = Vector_zero

\* Ray::new was given the zero vector as direction and has returned a ray
\* whose direction is NaN
C14_Witness ==
    /\ call_pc = "done"
    /\ callee = "Ray::new"
    /\ args.v = Vector_zero
    /\ IsNaN(returned.direction)

\* the buffer entries of the pixels of the image: 0 <= x < RES_X, 0 <= y < RES_Y
ImageEntries ==
    {e \in UNION {{Thread(i).colors[k] : k \in 1..Len(Thread(i).colors)} :
                     i \in 0..(Len(threads) - 1)} :
        e.x < RES_X /\ e.y < RES_Y}

\* C15, as stated: for every pixel of the image a worker has computed, the
\* u and v of each of its samples lie in [0, 1], the top row y = 0 included
C15_UVInUnitSquare ==
    \A e \in ImageEntries :
        \A k \in 1..Len(e.uvs) :
            /\ 0 <= e.uvs[k].u.num /\ e.uvs[k].u.num <= e.uvs[k].u.den
            /\ 0 <= e.uvs[k].v.num /\ e.uvs[k].v.num <= e.uvs[k].v.den

\* a pixel of the top row of an image three rows high was sampled at v > 1
C15_Witness ==
    \E e \in ImageEntries :
        /\ e.y = 0 /\ RES_Y = 3
        /\ e.uvs[1].v.num > e.uvs[1].v.den
====
